---- MODULE Spec2Model ----
(***************************************************************************)
(* A state-machine model of src/secure_server.py: the command-line entry   *)
(* point main(), the lifecycle of SecureWebRTCServer (certificate          *)
(* provisioning, bind, TLS wrap, serve_forever, cleanup) and the request   *)
(* handler SecureWebRTCHandler (method dispatch, send_head, guess_type,    *)
(* end_headers).                                                           *)
(***************************************************************************)
EXTENDS Integers, Sequences, FiniteSets, TLC

VARIABLES
    args,          \* the parsed command line: [cert, key, install_deps]
    pc,            \* position of the main thread
    exitPath,      \* which return/except branch main()/start() took
    cert_file,     \* SecureWebRTCServer.cert_file
    key_file,      \* SecureWebRTCServer.key_file
    temp_cert_dir, \* SecureWebRTCServer.temp_cert_dir
    server,        \* SecureWebRTCServer.server: None or the TCPServer's fields
    disk,          \* certificate part of the filesystem: [dirs, files]
    created,       \* history: directories returned by tempfile.mkdtemp(), in order
    generation,    \* history: the strategies generation ran, and what it returned
    removed,       \* history: directories removed by os.rmdir(), in order
    tcpServerBuilt,\* history: socketserver.TCPServer(...) has been called
    docroot,       \* the working directory: what is at each path of Entries
    backlog,       \* connections waiting in the listening socket's queue
    req,           \* per client: the request it sent on its connection
    sent,          \* per client: how many requests it has sent
    resp           \* per client: what the handler wrote back, and when

vars == <<args, pc, exitPath, cert_file, key_file, temp_cert_dir, server,
          disk, created, generation, removed, tcpServerBuilt, docroot, backlog, req,
          sent, resp>>

\* a path attribute that is not set (falsy)
None == <<>>

\* requests one client sends during a run
MaxRequests == 1

----------------------------------------------------------------------------
(* The certificate part of the filesystem.  A path is the sequence of its  *)
(* components: <<dir>> a directory, <<dir, name>> a file in it.            *)

UserDir  == <<"certs">>
UserCert == <<"certs", "server.crt">>
UserKey  == <<"certs", "server.key">>

\* tempfile.mkdtemp() returns a new directory on every call
TmpDirs == << <<"tmpA">>, <<"tmpB">> >>

join(dir, name) == Append(dir, name)

dirname(p) == SubSeq(p, 1, Len(p) - 1)

exists(d, p) == p \in d.dirs \/ p \in d.files

mkdtemp(d, made) ==
    LET dir == TmpDirs[Len(made) + 1]
    IN  [dir |-> dir, disk |-> [d EXCEPT !.dirs = @ \cup {dir}]]

writeFile(d, p) == [d EXCEPT !.files = @ \cup {p}]

unlink(d, p) == [d EXCEPT !.files = @ \ {p}]

\* os.rmdir raises OSError on a directory that is not empty
rmdirOk(d, dir) == dir \in d.dirs /\ ~ \E f \in d.files : dirname(f) = dir

rmdir(d, dir) == [d EXCEPT !.dirs = @ \ {dir}]

----------------------------------------------------------------------------
(* Certificate generation.  s is the part of the server object and of the  *)
(* filesystem that generation touches: [cert_file, key_file,               *)
(* temp_cert_dir, disk, created, ran].  The result is [ok, s] where ok is  *)
(* "True", "False" or "raise" (an exception leaves the method); s.ran      *)
(* lists the strategies that ran, each with how it ended.                  *)

Ran(s, strategy, ended) == [s EXCEPT !.ran = Append(@, <<strategy, ended>>)]

\* where the OpenSSL fallback can fail
OpensslFailures == {"none", "mkdtemp", "genrsa", "req"}

generate_cert_with_openssl(s, fail, partial) ==
    IF fail = "mkdtemp"
    THEN [ok |-> "raise", s |-> Ran(s, "openssl", "raise")]
    ELSE
      LET t  == mkdtemp(s.disk, s.created)
          s1 == [s EXCEPT !.temp_cert_dir = t.dir,
                          !.cert_file = join(t.dir, "cert.pem"),
                          !.key_file = join(t.dir, "key.pem"),
                          !.disk = t.disk,
                          !.created = Append(@, t.dir)]
          withKey  == [s1 EXCEPT !.disk = writeFile(@, s1.key_file)]
          withBoth == [withKey EXCEPT !.disk = writeFile(@, s1.cert_file)]
      IN  CASE fail = "genrsa" ->
                 [ok |-> "False",
                  s |-> Ran(IF partial THEN withKey ELSE s1, "openssl", "failed")]
            [] fail = "req" ->
                 [ok |-> "False",
                  s |-> Ran(IF partial THEN withBoth ELSE withKey,
                            "openssl", "failed")]
            [] OTHER -> [ok |-> "True", s |-> Ran(withBoth, "openssl", "ok")]

\* where the native (cryptography) path can fail
NativeFailures == {"none", "build", "mkdtemp", "write_cert", "write_key"}

\* generation that gives up when the native path fails
generate_self_signed_cert_without_fallback(s, nfail, npartial, ofail, opartial) ==
    IF nfail = "none"
    THEN LET t  == mkdtemp(s.disk, s.created)
             s1 == [s EXCEPT !.temp_cert_dir = t.dir,
                             !.cert_file = join(t.dir, "cert.pem"),
                             !.key_file = join(t.dir, "key.pem"),
                             !.disk = writeFile(writeFile(t.disk,
                                          join(t.dir, "cert.pem")),
                                          join(t.dir, "key.pem")),
                             !.created = Append(@, t.dir)]
         IN  [ok |-> "True", s |-> Ran(s1, "native", "ok")]
    ELSE [ok |-> "False", s |-> Ran(s, "native", "failed")]

generate_self_signed_cert(s, nfail, npartial, ofail, opartial) ==
    IF nfail \in {"build", "mkdtemp"}
    THEN generate_cert_with_openssl(Ran(s, "native", "failed"), ofail, opartial)
    ELSE
      LET t  == mkdtemp(s.disk, s.created)
          s1 == [s EXCEPT !.temp_cert_dir = t.dir,
                          !.cert_file = join(t.dir, "cert.pem"),
                          !.key_file = join(t.dir, "key.pem"),
                          !.disk = t.disk,
                          !.created = Append(@, t.dir)]
          withCert == [s1 EXCEPT !.disk = writeFile(@, s1.cert_file)]
          withBoth == [withCert EXCEPT !.disk = writeFile(@, s1.key_file)]
      IN  CASE nfail = "write_cert" ->
                 generate_cert_with_openssl(
                     Ran(IF npartial THEN withCert ELSE s1, "native", "failed"),
                     ofail, opartial)
            [] nfail = "write_key" ->
                 generate_cert_with_openssl(
                     Ran(IF npartial THEN withBoth ELSE withCert,
                         "native", "failed"),
                     ofail, opartial)
            [] OTHER -> [ok |-> "True", s |-> Ran(withBoth, "native", "ok")]

----------------------------------------------------------------------------
(* The document root (the working directory).  A filesystem path is the    *)
(* sequence of its components below the working directory; docroot maps    *)
(* the paths that may exist to what is there.                              *)

Kinds == {"absent", "file", "dir", "unreadable"}

Cwd == <<>>

Entries == {<<"index.html">>, <<"webrtc.js">>, <<"styles.css">>, <<"APP.JS">>,
            <<"sub">>, <<"sub", "index.html">>, <<"assets">>}

kindOf(root, p) ==
    IF p = Cwd THEN "dir" ELSE IF p \in Entries THEN root[p] ELSE "absent"

os_path_exists(root, p) == kindOf(root, p) # "absent"

os_path_isdir(root, p) == kindOf(root, p) = "dir"

\* open(path, 'rb') raises OSError unless path is a readable regular file
openOk(root, p) == kindOf(root, p) = "file"

os_path_join(p, name) == Append(p, name)

\* the text after the last dot of the last component, as posixpath.splitext
extOf(p) ==
    IF p = Cwd THEN ""
    ELSE CASE p[Len(p)] = "index.html"  -> "html"
           [] p[Len(p)] = "webrtc.js"   -> "js"
           [] p[Len(p)] = "styles.css"  -> "css"
           [] p[Len(p)] = "APP.JS"      -> "JS"
           [] p[Len(p)] = "missing.txt" -> "txt"
           [] OTHER -> ""

\* str.endswith('.' + e): an exact, case-sensitive comparison
endswith(p, e) == extOf(p) = e

\* str.lower() on the extensions that occur
lower(e) ==
    CASE e = "JS" -> "js" [] e = "HTML" -> "html" [] e = "CSS" -> "css"
      [] OTHER -> e

----------------------------------------------------------------------------
(* SecureWebRTCHandler.  What a handler writes to the connection is a      *)
(* sequence of events [t, code, name, value, file]: the status line, the   *)
(* header lines, the blank line that ends the headers, and the body.       *)

NoFile == <<"<none>">>

StatusLine(code, message) ==
    [t |-> "status", code |-> code, name |-> message, value |-> "", file |-> NoFile]

Header(name, value) ==
    [t |-> "header", code |-> 0, name |-> name, value |-> value, file |-> NoFile]

\* a header whose value is computed from a file's os.fstat()
StatHeader(name, field, p) ==
    [t |-> "header", code |-> 0, name |-> name, value |-> field, file |-> p]

EndOfHeaders ==
    [t |-> "end_headers", code |-> 0, name |-> "", value |-> "", file |-> NoFile]

FileBody(p) ==
    [t |-> "body", code |-> 0, name |-> "", value |-> "file", file |-> p]

ErrorBody(code, message) ==
    [t |-> "body", code |-> code, name |-> message, value |-> "error_page",
     file |-> NoFile]

\* http.server's directory listing, which the overridden send_head never calls
ListingBody(p) ==
    [t |-> "body", code |-> 0, name |-> "", value |-> "listing", file |-> p]

send_response(code, message) ==
    <<StatusLine(code, message), Header("Server", "SimpleHTTP"),
      Header("Date", "<now>")>>

CorsHeaders ==
    <<Header("Access-Control-Allow-Origin", "*"),
      Header("Access-Control-Allow-Methods", "GET, POST, OPTIONS"),
      Header("Access-Control-Allow-Headers", "Content-Type")>>

SecurityHeaders ==
    <<Header("X-Content-Type-Options", "nosniff"),
      Header("X-Frame-Options", "DENY"),
      Header("X-XSS-Protection", "1; mode=block"),
      Header("Referrer-Policy", "strict-origin-when-cross-origin"),
      Header("Permissions-Policy", "camera=(self), microphone=(self), geolocation=()"),
      Header("Content-Security-Policy", "default-src 'self'; ...; base-uri 'self'")>>

HstsHeader ==
    Header("Strict-Transport-Security", "max-age=31536000; includeSubDomains")

\* the header set without the Content-Security-Policy line
end_headers_without_csp(srv) ==
    CorsHeaders \o SubSeq(SecurityHeaders, 1, Len(SecurityHeaders) - 1)
      \o (IF srv.is_https THEN <<HstsHeader>> ELSE <<>>)
      \o <<EndOfHeaders>>

end_headers(srv) ==
    CorsHeaders \o SecurityHeaders
      \o (IF srv.is_https THEN <<HstsHeader>> ELSE <<>>)
      \o <<EndOfHeaders>>

\* http.server's guess_type: the extension map is consulted with the
\* extension lower-cased; unknown extensions are application/octet-stream
super_guess_type(p) ==
    LET e == lower(extOf(p))
    IN  CASE e = "html" -> "text/html"
          [] e = "js"   -> "text/javascript"
          [] e = "css"  -> "text/css"
          [] e = "txt"  -> "text/plain"
          [] OTHER -> "application/octet-stream"

guess_type(p) ==
    LET mimetype == super_guess_type(p)
    IN  IF endswith(p, "html") \/ endswith(p, "htm")
          THEN "text/html; charset=utf-8"
        ELSE IF endswith(p, "css") THEN "text/css; charset=utf-8"
        ELSE IF endswith(p, "js") THEN "application/javascript; charset=utf-8"
        ELSE IF endswith(p, "mjs") THEN "application/javascript; charset=utf-8"
        ELSE IF endswith(p, "json") THEN "application/json; charset=utf-8"
        ELSE IF endswith(p, "wasm") THEN "application/wasm"
        ELSE IF endswith(p, "ico") THEN "image/x-icon"
        ELSE IF endswith(p, "png") THEN "image/png"
        ELSE IF endswith(p, "jpg") \/ endswith(p, "jpeg") THEN "image/jpeg"
        ELSE IF endswith(p, "svg") THEN "image/svg+xml"
        ELSE IF endswith(p, "webp") THEN "image/webp"
        ELSE IF endswith(p, "mp4") THEN "video/mp4"
        ELSE IF endswith(p, "webm") THEN "video/webm"
        ELSE mimetype

send_error(command, code, message, srv) ==
    send_response(code, message)
      \o <<Header("Connection", "close"),
           Header("Content-Type", "text/html;charset=utf-8"),
           [Header("Content-Length", "len(body)") EXCEPT !.code = code]>>
      \o end_headers(srv)
      \o (IF command # "HEAD" THEN <<ErrorBody(code, message)>> ELSE <<>>)

(* A request path is [raw, segs]: raw tells the two strings the handler    *)
(* compares against ('' and '/') from every other; segs are the            *)
(* components translate_path() resolves below the working directory.       *)
ReqPath(raw, segs) == [raw |-> raw, segs |-> segs]

translate_path(path) == path.segs

CacheExts == {"css", "js", "png", "jpg", "jpeg", "ico", "svg", "woff", "woff2"}

\* only '/' is rewritten
root_to_index_slash_only(reqpath) ==
    IF reqpath.raw = "/"
    THEN ReqPath("/index.html", <<"index.html">>)
    ELSE reqpath

\* lines 103-104: the root path is served as index.html
root_to_index(reqpath) ==
    IF reqpath.raw = "/" \/ reqpath.raw = ""
    THEN ReqPath("/index.html", <<"index.html">>)
    ELSE reqpath

\* http.server's own answer to a directory without an index: list it
list_directory(command, path, srv) ==
    [out |-> send_response(200, "OK")
               \o <<Header("Content-type", "text/html; charset=utf-8"),
                    Header("Content-Length", "len(listing)")>>
               \o end_headers(srv)
               \o (IF command # "HEAD" THEN <<ListingBody(path)>> ELSE <<>>),
     f |-> NoFile]

\* lines 117-119: a directory without index.html is refused
directory_without_index(command, path, srv) ==
    [out |-> send_error(command, 403, "Directory listing not allowed", srv),
     f |-> NoFile]

\* the result is [out, f]: what was written, and the open file or NoFile
send_head(command, reqpath, root, srv) ==
    LET selfpath == root_to_index(reqpath)
        path0 == translate_path(selfpath)
        index_path == os_path_join(path0, "index.html")
        path == IF os_path_isdir(root, path0) THEN index_path ELSE path0
    IN  IF ~ os_path_exists(root, path0)
          THEN [out |-> send_error(command, 404, "File not found", srv),
                f |-> NoFile]
        ELSE IF os_path_isdir(root, path0) /\ ~ os_path_exists(root, index_path)
          THEN directory_without_index(command, path0, srv)
        ELSE IF ~ openOk(root, path)
          THEN [out |-> send_error(command, 404, "File not found", srv),
                f |-> NoFile]
        ELSE [out |-> send_response(200, "OK")
                        \o <<Header("Content-type", guess_type(path)),
                             StatHeader("Content-Length", "st_size", path),
                             StatHeader("Last-Modified", "st_mtime", path),
                             Header("Cache-Control",
                                    IF \E e \in CacheExts : endswith(path, e)
                                    THEN "public, max-age=3600"
                                    ELSE "no-cache, no-store, must-revalidate")>>
                        \o end_headers(srv),
              f |-> path]

\* inherited from SimpleHTTPRequestHandler: send_head(), then copy the file
do_GET(reqpath, root, srv) ==
    LET r == send_head("GET", reqpath, root, srv)
    IN  IF r.f # NoFile THEN r.out \o <<FileBody(r.f)>> ELSE r.out

\* inherited from SimpleHTTPRequestHandler: send_head(), then close the file
do_HEAD(reqpath, root, srv) == send_head("HEAD", reqpath, root, srv).out

do_OPTIONS(srv) == send_response(200, "OK") \o end_headers(srv)

\* a handler class without do_OPTIONS
HandlerMethodsWithoutOptions == {"GET", "HEAD"}

\* the methods for which the handler class has a do_<command> attribute
HandlerMethods == {"GET", "HEAD", "OPTIONS"}

\* BaseHTTPRequestHandler.handle_one_request: dispatch on 'do_' + command
handle_one_request(request, root, srv) ==
    IF request.command \notin HandlerMethods
      THEN send_error(request.command, 501, "Unsupported method", srv)
    ELSE IF request.command = "GET" THEN do_GET(request.path, root, srv)
    ELSE IF request.command = "HEAD" THEN do_HEAD(request.path, root, srv)
    ELSE do_OPTIONS(srv)

----------------------------------------------------------------------------
(* Clients and requests.                                                   *)

Clients == {"c1", "c2"}

P_empty   == ReqPath("", <<>>)
P_root    == ReqPath("/", <<>>)
P_index   == ReqPath("/index.html", <<"index.html">>)
P_webrtc  == ReqPath("/webrtc.js", <<"webrtc.js">>)
P_APP     == ReqPath("/APP.JS", <<"APP.JS">>)
P_sub     == ReqPath("/sub", <<"sub">>)
P_assets  == ReqPath("/assets", <<"assets">>)
P_missing == ReqPath("/missing.txt", <<"missing.txt">>)

Paths == {P_empty, P_root, P_index, P_webrtc, P_APP, P_sub, P_assets,
          P_missing}

Commands == {"GET", "HEAD", "OPTIONS", "POST", "DELETE"}

\* every path is requested with GET; the other methods with one or two paths
Requests ==
    {r \in [command : Commands, path : Paths] :
        \/ r.command = "GET"
        \/ r.command = "HEAD" /\ r.path \in {P_index, P_missing}
        \/ r.command \in {"OPTIONS", "POST", "DELETE"} /\ r.path = P_index}

NoReq == [command |-> "", path |-> P_empty]

NoResp == [out |-> <<>>, root |-> <<>>, tls |-> FALSE]

----------------------------------------------------------------------------
(* main()                                                                  *)

NoServer ==
    [socket |-> "none", is_https |-> FALSE, is_shut_down |-> FALSE,
     shutdown_request |-> FALSE]

\* generate_self_signed_cert() has not been called
NotGenerated == [ran |-> <<>>, result |-> "not called"]

ArgCerts == {None, UserCert}
ArgKeys  == {None, UserKey}

\* the working directories a run starts in: sub/ holds an index.html,
\* assets/ is an empty directory
DocRoots ==
    {r \in [Entries -> Kinds] :
        /\ r[<<"index.html">>] \in {"file", "unreadable", "absent"}
        /\ r[<<"webrtc.js">>] \in {"file", "absent"}
        /\ r[<<"styles.css">>] = "file"
        /\ r[<<"APP.JS">>] = "file"
        /\ r[<<"sub">>] = "dir"
        /\ r[<<"sub", "index.html">>] = "file"
        /\ r[<<"assets">>] = "dir"}

\* the certificate files that exist are among those the command line names
Disks ==
    {d \in [dirs : {{UserDir}}, files : SUBSET {UserCert, UserKey}] :
        \A f \in d.files : f \in {args.cert, args.key}}

Init ==
    /\ args \in [cert : ArgCerts, key : ArgKeys, install_deps : BOOLEAN]
    /\ pc = "main"
    /\ exitPath = "none"
    /\ cert_file = None
    /\ key_file = None
    /\ temp_cert_dir = None
    /\ server = NoServer
    /\ disk \in Disks
    /\ created = <<>>
    /\ generation = NotGenerated
    /\ removed = <<>>
    /\ tcpServerBuilt = FALSE
    /\ docroot \in DocRoots
    /\ backlog = <<>>
    /\ req = [c \in Clients |-> NoReq]
    /\ sent = [c \in Clients |-> 0]
    /\ resp = [c \in Clients |-> NoResp]

serving_vars == <<docroot, backlog, req, sent, resp>>

main ==
    /\ pc = "main"
    /\ IF args.install_deps
       THEN /\ pc' = "exited"
            /\ exitPath' = "install_deps"
            /\ UNCHANGED <<cert_file, key_file>>
       ELSE IF args.cert # None /\ args.key # None
       THEN IF ~ exists(disk, args.cert) \/ ~ exists(disk, args.key)
            THEN /\ pc' = "exited"
                 /\ exitPath' = "cert_not_found"
                 /\ UNCHANGED <<cert_file, key_file>>
            ELSE /\ pc' = "start"
                 /\ cert_file' = args.cert
                 /\ key_file' = args.key
                 /\ UNCHANGED exitPath
       ELSE IF args.cert # None \/ args.key # None
       THEN /\ pc' = "exited"
            /\ exitPath' = "cert_key_not_together"
            /\ UNCHANGED <<cert_file, key_file>>
       ELSE /\ pc' = "start"
            /\ cert_file' = args.cert
            /\ key_file' = args.key
            /\ UNCHANGED exitPath
    /\ UNCHANGED <<args, temp_cert_dir, server, disk, created, generation, removed,
                   tcpServerBuilt>>
    /\ UNCHANGED serving_vars

----------------------------------------------------------------------------
(* SecureWebRTCServer.start()                                              *)

required_files == {<<"index.html">>, <<"webrtc.js">>, <<"styles.css">>}

\* a check that looks for index.html only
missing_files_index_only(root) ==
    {f \in {<<"index.html">>} : ~ os_path_exists(root, f)}

missing_files(root) == {f \in required_files : ~ os_path_exists(root, f)}

\* what certificate generation reads and writes
GenState ==
    [cert_file |-> cert_file, key_file |-> key_file,
     temp_cert_dir |-> temp_cert_dir, disk |-> disk, created |-> created,
     ran |-> <<>>]

\* lines 314-328: the required files, then the certificate
start_provision ==
    /\ pc = "start"
    /\ IF missing_files(docroot) # {}
       THEN /\ pc' = "cleanup"
            /\ exitPath' = "missing_files"
            /\ UNCHANGED <<cert_file, key_file, temp_cert_dir, disk, created, generation>>
       ELSE IF cert_file = None \/ key_file = None
       THEN \E nfail \in NativeFailures, ofail \in OpensslFailures,
               npartial \in BOOLEAN, opartial \in BOOLEAN :
              LET g == generate_self_signed_cert(GenState, nfail, npartial,
                                                 ofail, opartial)
              IN  /\ cert_file' = g.s.cert_file
                  /\ key_file' = g.s.key_file
                  /\ temp_cert_dir' = g.s.temp_cert_dir
                  /\ disk' = g.s.disk
                  /\ created' = g.s.created
                  /\ generation' = [ran |-> g.s.ran, result |-> g.ok]
                  /\ pc' = IF g.ok = "True" THEN "bind" ELSE "cleanup"
                  /\ exitPath' = CASE g.ok = "True"  -> exitPath
                                   [] g.ok = "False" -> "cert_generation_failed"
                                   [] OTHER          -> "unexpected_error"
       ELSE /\ pc' = "bind"
            /\ UNCHANGED <<exitPath, cert_file, key_file, temp_cert_dir, disk,
                           created, generation>>
    /\ UNCHANGED <<args, server, removed, tcpServerBuilt>>
    /\ UNCHANGED serving_vars

\* lines 331-332: TCPServer(...) binds and listens, or raises OSError after
\* closing its socket
start_bind ==
    /\ pc = "bind"
    /\ tcpServerBuilt' = TRUE
    /\ \E bound \in BOOLEAN :
         IF bound
         THEN /\ server' = [socket |-> "listening", is_https |-> TRUE,
                            is_shut_down |-> FALSE, shutdown_request |-> FALSE]
              /\ pc' = "wrap"
              /\ UNCHANGED exitPath
         ELSE /\ server' = server
              /\ pc' = "cleanup"
              /\ exitPath' = "bind_error"
    /\ UNCHANGED <<args, cert_file, key_file, temp_cert_dir, disk, created, generation,
                   removed>>
    /\ UNCHANGED serving_vars

\* lines 335-346: load_cert_chain, set_ciphers, wrap_socket; each may raise
start_wrap_ssl ==
    /\ pc = "wrap"
    /\ \E wrapped \in BOOLEAN :
         IF wrapped
         THEN /\ server' = [server EXCEPT !.socket = "tls"]
              /\ pc' = "serve_forever"
              /\ UNCHANGED exitPath
         ELSE /\ server' = server
              /\ pc' = "cleanup"
              /\ exitPath' = "tls_error"
    /\ UNCHANGED <<args, cert_file, key_file, temp_cert_dir, disk, created, generation,
                   removed, tcpServerBuilt>>
    /\ UNCHANGED serving_vars

\* line 385: serve_forever() clears the event and enters its loop
serve_forever ==
    /\ pc = "serve_forever"
    /\ server' = [server EXCEPT !.is_shut_down = FALSE]
    /\ pc' = "serving"
    /\ UNCHANGED <<args, exitPath, cert_file, key_file, temp_cert_dir, disk,
                   created, generation, removed, tcpServerBuilt>>
    /\ UNCHANGED serving_vars

lifecycle_vars ==
    <<args, pc, exitPath, cert_file, key_file, temp_cert_dir, server, disk,
      created, generation, removed, tcpServerBuilt>>

\* a client connects and sends one request; the connection waits to be accepted
client_request(c, r) ==
    /\ pc = "serving"
    /\ sent[c] < MaxRequests
    /\ ~ \E i \in 1..Len(backlog) : backlog[i] = c
    /\ req' = [req EXCEPT ![c] = r]
    /\ resp' = [resp EXCEPT ![c] = NoResp]
    /\ sent' = [sent EXCEPT ![c] = @ + 1]
    /\ backlog' = Append(backlog, c)
    /\ UNCHANGED docroot
    /\ UNCHANGED lifecycle_vars

\* a loop that answers one connection and drops the others that wait
handle_request_drops_waiting ==
    /\ pc = "serving"
    /\ backlog # <<>>
    /\ LET c == Head(backlog)
       IN  resp' = [resp EXCEPT ![c] =
                      [out  |-> handle_one_request(req[c], docroot, server),
                       root |-> docroot,
                       tls  |-> server.socket = "tls"]]
    /\ backlog' = <<>>
    /\ UNCHANGED <<docroot, req, sent>>
    /\ UNCHANGED lifecycle_vars

\* one turn of the serve_forever loop: accept the first waiting connection
\* and run the handler on it to completion
handle_request ==
    /\ pc = "serving"
    /\ backlog # <<>>
    /\ LET c == Head(backlog)
       IN  resp' = [resp EXCEPT ![c] =
                      [out  |-> handle_one_request(req[c], docroot, server),
                       root |-> docroot,
                       tls  |-> server.socket = "tls"]]
    /\ backlog' = Tail(backlog)
    /\ UNCHANGED <<docroot, req, sent>>
    /\ UNCHANGED lifecycle_vars

\* the developer deletes or restores index.html while the server runs
edit_docroot ==
    /\ pc = "serving"
    /\ docroot[<<"index.html">>] \in {"file", "absent"}
    /\ docroot' = [docroot EXCEPT ![<<"index.html">>] =
                     IF @ = "file" THEN "absent" ELSE "file"]
    /\ UNCHANGED <<backlog, req, sent, resp>>
    /\ UNCHANGED lifecycle_vars

\* serve_forever() is left by an exception: its finally clause sets the
\* event.  No connection is accepted from here on: the clients' side of the
\* connections is not followed any further.
leave_serve_forever(why) ==
    /\ pc = "serving"
    /\ server' = [server EXCEPT !.shutdown_request = FALSE,
                                !.is_shut_down = TRUE]
    /\ exitPath' = why
    /\ pc' = "cleanup"
    /\ backlog' = <<>>
    /\ req' = [c \in Clients |-> NoReq]
    /\ sent' = [c \in Clients |-> 0]
    /\ resp' = [c \in Clients |-> NoResp]
    /\ UNCHANGED <<args, cert_file, key_file, temp_cert_dir, disk, created, generation,
                   removed, tcpServerBuilt, docroot>>

\* lines 387-388: Ctrl-C
keyboard_interrupt == leave_serve_forever("keyboard_interrupt")

\* lines 389-395: any other exception out of the serving loop
serve_error == leave_serve_forever("unexpected_error")

----------------------------------------------------------------------------
(* SecureWebRTCServer.cleanup()                                            *)

\* cleanup that forgets to ask whether the certificate is the server's own
cleanup_certs_unconditional(cf, kf, tdir, d, rm) ==
    LET d1 == IF cf # None /\ exists(d, cf) THEN unlink(d, cf) ELSE d
        d2 == IF kf # None /\ exists(d1, kf) THEN unlink(d1, kf) ELSE d1
    IN  IF tdir # None /\ rmdirOk(d2, tdir)
        THEN [disk |-> rmdir(d2, tdir), removed |-> Append(rm, tdir)]
        ELSE [disk |-> d2, removed |-> rm]

\* lines 405-414, on [disk, removed]
cleanup_certs(cf, kf, tdir, d, rm) ==
    IF tdir # None /\ exists(d, tdir)
    THEN LET d1 == IF cf # None /\ exists(d, cf) THEN unlink(d, cf) ELSE d
             d2 == IF kf # None /\ exists(d1, kf) THEN unlink(d1, kf) ELSE d1
         IN  IF rmdirOk(d2, tdir)
             THEN [disk |-> rmdir(d2, tdir), removed |-> Append(rm, tdir)]
             ELSE [disk |-> d2, removed |-> rm]
    ELSE [disk |-> d, removed |-> rm]

\* BaseServer.shutdown() returns once serve_forever() has set the event
shutdown_returns(srv) == srv.is_shut_down

\* lines 399-414 when shutdown() returns (or there is no server)
cleanup ==
    /\ pc = "cleanup"
    /\ server # NoServer => shutdown_returns(server)
    /\ server' = IF server # NoServer
                 THEN [server EXCEPT !.shutdown_request = TRUE,
                                     !.socket = "closed"]
                 ELSE server
    /\ LET r == cleanup_certs(cert_file, key_file, temp_cert_dir, disk, removed)
       IN  /\ disk' = r.disk
           /\ removed' = r.removed
    /\ pc' = "done"
    /\ UNCHANGED <<args, exitPath, cert_file, key_file, temp_cert_dir, created, generation,
                   tcpServerBuilt>>
    /\ UNCHANGED serving_vars

\* lines 401-402 when serve_forever() never ran: shutdown() sets the request
\* flag and waits on an event nothing will set
cleanup_blocks_in_shutdown ==
    /\ pc = "cleanup"
    /\ server # NoServer
    /\ ~ shutdown_returns(server)
    /\ server' = [server EXCEPT !.shutdown_request = TRUE]
    /\ pc' = "blocked_in_shutdown"
    /\ UNCHANGED <<args, exitPath, cert_file, key_file, temp_cert_dir, disk,
                   created, generation, removed, tcpServerBuilt>>
    /\ UNCHANGED serving_vars


----------------------------------------------------------------------------
(* Properties of the lifecycle.                                            *)

CallerSuppliedBoth == args.cert # None /\ args.key # None

CleanupReturns == pc = "cleanup" /\ pc' = "done"

FailedAfterPartialSetup == exitPath \in {"bind_error", "tls_error"}

\* C2: when the bind raises, or TLS setup raises after the bind, cleanup()
\* does not block, and once it has returned the listener is closed and the
\* generated certificate directory is gone.
C2_PartialSetupFailureStillCleansUp ==
    FailedAfterPartialSetup =>
        /\ pc # "blocked_in_shutdown"
        /\ pc = "done" =>
             /\ server.socket \in {"none", "closed"}
             /\ temp_cert_dir # None => ~ exists(disk, temp_cert_dir)

Count(seq, x) == Cardinality({i \in 1..Len(seq) : seq[i] = x})

\* C3: once start() has returned, every directory mkdtemp() created has been
\* removed exactly once and none is left on disk.
C3_EveryTempDirRemovedExactlyOnce ==
    pc = "done" =>
        \A i \in 1..Len(created) :
            /\ ~ exists(disk, created[i])
            /\ Count(removed, created[i]) = 1

ConfigError ==
    \/ (args.cert # None) # (args.key # None)
    \/ /\ CallerSuppliedBoth
       /\ ~ exists(disk, args.cert) \/ ~ exists(disk, args.key)

RequiredFileAbsent ==
    \E f \in {<<"index.html">>, <<"webrtc.js">>, <<"styles.css">>} :
        kindOf(docroot, f) = "absent"

NoListener == ~ tcpServerBuilt /\ server = NoServer

\* C4: no TCPServer is ever constructed (a) when exactly one of --cert/--key
\* is given or a given path is missing, in which case nothing is provisioned
\* either; (b) when start() finds a required file absent; (c) when both the
\* native and the OpenSSL generation have failed.
C4_NoListenerOnFatalPreListenError ==
    /\ [](ConfigError => NoListener /\ created = <<>> /\ pc \in {"main", "exited"})
    /\ [](exitPath \in {"missing_files", "cert_generation_failed"} => NoListener)
    /\ [][ pc = "start" /\ RequiredFileAbsent =>
             pc' = "cleanup" /\ created' = created /\ NoListener' ]_vars

\* start() has returned after both generation paths failed, without a listener
C4_Witness ==
    /\ pc = "done"
    /\ exitPath = "cert_generation_failed"
    /\ Len(created) = 2
    /\ NoListener

Strategies(g) == {g.ran[i][1] : i \in 1..Len(g.ran)}

Ended(g, strategy) ==
    {g.ran[i][2] : i \in {j \in 1..Len(g.ran) : g.ran[j][1] = strategy}}

\* C11: generation tries the native path first and OpenSSL second, each at
\* most once; OpenSSL runs only after the native path has failed and never
\* after it has succeeded; generation returns True exactly when the last
\* strategy that ran succeeded, and returns False only when the native path
\* and the OpenSSL commands have both failed, after which no server starts.
C11_GenerationShortCircuits ==
    generation # NotGenerated =>
        /\ Len(generation.ran) \in {1, 2}
        /\ generation.ran[1][1] = "native"
        /\ Len(generation.ran) = 2 =>
             generation.ran[1] = <<"native", "failed">>
             /\ generation.ran[2][1] = "openssl"
        /\ "ok" \in Ended(generation, "native") =>
             "openssl" \notin Strategies(generation)
        /\ generation.result = "True" <=>
             \E i \in 1..Len(generation.ran) : generation.ran[i][2] = "ok"
        /\ generation.result = "False" =>
             /\ generation.ran = << <<"native", "failed">>, <<"openssl", "failed">> >>
             /\ exitPath = "cert_generation_failed"
             /\ NoListener
        /\ Ended(generation, "native") = {"failed"}
             /\ Ended(generation, "openssl") = {"failed"}
             => generation.result = "False"

\* the native path failed, OpenSSL succeeded, and the server is serving
C11_Witness ==
    /\ generation.ran = << <<"native", "failed">>, <<"openssl", "ok">> >>
    /\ generation.result = "True"
    /\ pc = "serving"

----------------------------------------------------------------------------
(* Properties of the responses.                                            *)

Answered(c) == resp[c].out # <<>>

StatusOf(out) == out[1].code

HeaderValues(out, n) ==
    {out[i].value : i \in {j \in 1..Len(out) : out[j].t = "header" /\ out[j].name = n}}

HasHeader(out, n) == HeaderValues(out, n) # {}

Bodies(out) == {out[i] : i \in {j \in 1..Len(out) : out[j].t = "body"}}

FixedHeaderSet ==
    {<<"Access-Control-Allow-Origin", "*">>,
     <<"Access-Control-Allow-Methods", "GET, POST, OPTIONS">>,
     <<"Access-Control-Allow-Headers", "Content-Type">>,
     <<"X-Content-Type-Options", "nosniff">>,
     <<"X-Frame-Options", "DENY">>,
     <<"X-XSS-Protection", "1; mode=block">>,
     <<"Referrer-Policy", "strict-origin-when-cross-origin">>,
     <<"Permissions-Policy", "camera=(self), microphone=(self), geolocation=()">>,
     <<"Content-Security-Policy", "default-src 'self'; ...; base-uri 'self'">>}

\* header h stands in out before the end of the headers and before any body
SentBeforeBody(out, h) ==
    \E i \in 1..Len(out) :
        /\ out[i].t = "header" /\ out[i].name = h[1] /\ out[i].value = h[2]
        /\ \A j \in 1..Len(out) : out[j].t \in {"end_headers", "body"} => i < j

\* C5: every response, whatever the method and the outcome, carries the nine
\* fixed security headers before any body, and carries
\* Strict-Transport-Security exactly when the connection is a TLS one.
C5_SecurityHeadersOnEveryResponse ==
    \A c \in Clients :
        Answered(c) =>
            /\ \A h \in FixedHeaderSet : SentBeforeBody(resp[c].out, h)
            /\ HasHeader(resp[c].out, "Strict-Transport-Security") <=> resp[c].tls

\* one client holds the 501 of an unsupported method, the other a served file
C5_Witness ==
    \E c1, c2 \in Clients :
        /\ Answered(c1) /\ StatusOf(resp[c1].out) = 501
        /\ Answered(c2) /\ StatusOf(resp[c2].out) = 200
        /\ \E b \in Bodies(resp[c2].out) : b.value = "file"
        /\ resp[c1].tls /\ resp[c2].tls

\* the path a request resolves to below the working directory
ResolvedPath(r) ==
    IF r.path.raw \in {"", "/"} THEN <<"index.html">> ELSE r.path.segs

\* the file that is opened for it: index.html inside, for a directory
OpenedPath(root, r) ==
    IF kindOf(root, ResolvedPath(r)) = "dir"
    THEN Append(ResolvedPath(r), "index.html")
    ELSE ResolvedPath(r)

ExpectedStatus(root, r) ==
    CASE kindOf(root, ResolvedPath(r)) = "absent" -> 404
      [] /\ kindOf(root, ResolvedPath(r)) = "dir"
         /\ kindOf(root, OpenedPath(root, r)) = "absent" -> 403
      [] kindOf(root, OpenedPath(root, r)) = "file" -> 200
      [] OTHER -> 404

\* C6: a GET is answered 404 when the resolved path does not exist or cannot
\* be opened, 403 when it is a directory without index.html, and 200 with the
\* file (for a directory, its index.html) otherwise; the body is never a
\* directory listing.
C6_GetStatusByResolvedPath ==
    \A c \in Clients :
        Answered(c) /\ req[c].command = "GET" =>
            LET out == resp[c].out
                root == resp[c].root
            IN  /\ StatusOf(out) = ExpectedStatus(root, req[c])
                /\ \A b \in Bodies(out) : b.value # "listing"
                /\ StatusOf(out) = 200 =>
                     Bodies(out) = {FileBody(OpenedPath(root, req[c]))}
                /\ StatusOf(out) # 200 =>
                     \A b \in Bodies(out) : b.value = "error_page"

\* GET /assets (a directory without index.html) was answered 403 and GET /sub
\* (a directory with one) was answered 200 with sub/index.html
C6_Witness ==
    \E c1, c2 \in Clients :
        /\ Answered(c1) /\ req[c1] = [command |-> "GET", path |-> P_assets]
        /\ StatusOf(resp[c1].out) = 403
        /\ Answered(c2) /\ req[c2] = [command |-> "GET", path |-> P_sub]
        /\ FileBody(<<"sub", "index.html">>) \in Bodies(resp[c2].out)

IsTimestamp(e) == e.t = "header" /\ e.name \in {"Date", "Last-Modified"}

WithoutTimestamps(out) == SelectSeq(out, LAMBDA e : ~ IsTimestamp(e))

\* C7: on the same document root, GET / and GET with an empty path are
\* answered exactly as GET /index.html: same status, same headers apart from
\* the timestamps, same body.
C7_RootEqualsIndexHtml ==
    \A c1, c2 \in Clients :
        /\ Answered(c1) /\ Answered(c2)
        /\ req[c1].command = "GET" /\ req[c1].path \in {P_root, P_empty}
        /\ req[c2] = [command |-> "GET", path |-> P_index]
        /\ resp[c1].root = resp[c2].root
        => WithoutTimestamps(resp[c1].out) = WithoutTimestamps(resp[c2].out)

\* both were requested while index.html was absent, and both got 404
C7_Witness ==
    \E c1, c2 \in Clients :
        /\ Answered(c1) /\ Answered(c2)
        /\ req[c1].command = "GET" /\ req[c1].path \in {P_root, P_empty}
        /\ req[c2] = [command |-> "GET", path |-> P_index]
        /\ resp[c1].root = resp[c2].root
        /\ resp[c1].root[<<"index.html">>] = "absent"
        /\ StatusOf(resp[c1].out) = 404

OverrideExts ==
    {"html", "htm", "css", "js", "mjs", "json", "wasm", "ico", "png", "jpg",
     "jpeg", "svg", "webp", "mp4", "webm"}

ServedFiles(out) == {b.file : b \in {x \in Bodies(out) : x.value = "file"}}

\* C8: two served files whose extensions are in the override table and
\* differ only in letter case get the same Content-type.
C8_ContentTypeIgnoresExtensionCase ==
    \A c1, c2 \in Clients :
        \A f1 \in ServedFiles(resp[c1].out), f2 \in ServedFiles(resp[c2].out) :
            /\ lower(extOf(f1)) = lower(extOf(f2))
            /\ lower(extOf(f1)) \in OverrideExts
            => HeaderValues(resp[c1].out, "Content-type")
                 = HeaderValues(resp[c2].out, "Content-type")

FileHeaders == {"Content-type", "Last-Modified", "Cache-Control"}

NotImplementedResponse(out) ==
    /\ StatusOf(out) = 501
    /\ \A b \in Bodies(out) : b.value = "error_page"
    /\ \A n \in FileHeaders : ~ HasHeader(out, n)

GetAndOptions(c) ==
    /\ req[c].command = "GET" => StatusOf(resp[c].out) \in {200, 403, 404}
    /\ req[c].command = "OPTIONS" =>
         StatusOf(resp[c].out) = 200 /\ Bodies(resp[c].out) = {}

\* C9 as stated: GET and OPTIONS are the only supported methods, and every
\* other method, HEAD included, is answered 501 and never with a 200 or a
\* file-resolution result.
C9_OnlyGetAndOptionsSupported ==
    \A c \in Clients :
        Answered(c) =>
            /\ GetAndOptions(c)
            /\ req[c].command \notin {"GET", "OPTIONS"} =>
                 NotImplementedResponse(resp[c].out)

\* C9 amended: GET, HEAD and OPTIONS are supported; HEAD resolves the path as
\* GET does and sends the same status and headers without a body; every
\* other method is answered 501 and never with a 200 or a file-resolution
\* result.
C9_GetHeadOptionsSupported ==
    /\ \A c \in Clients :
         Answered(c) =>
            /\ GetAndOptions(c)
            /\ req[c].command = "HEAD" =>
                 /\ StatusOf(resp[c].out) = ExpectedStatus(resp[c].root, req[c])
                 /\ Bodies(resp[c].out) = {}
            /\ req[c].command \notin {"GET", "HEAD", "OPTIONS"} =>
                 NotImplementedResponse(resp[c].out)
    /\ \A c1, c2 \in Clients :
         /\ Answered(c1) /\ Answered(c2)
         /\ req[c1].command = "HEAD" /\ req[c2].command = "GET"
         /\ req[c1].path = req[c2].path
         /\ resp[c1].root = resp[c2].root
         => resp[c1].out = SelectSeq(resp[c2].out, LAMBDA e : e.t # "body")

\* a HEAD was answered 200 and a POST was answered 501
C9_Witness ==
    \E c1, c2 \in Clients :
        /\ Answered(c1) /\ req[c1].command = "HEAD"
        /\ StatusOf(resp[c1].out) = 200
        /\ Answered(c2) /\ req[c2].command = "POST"
        /\ StatusOf(resp[c2].out) = 501

Waiting(c) == \E i \in 1..Len(backlog) : backlog[i] = c

CorsOf(out) ==
    [n \in {"Access-Control-Allow-Origin", "Access-Control-Allow-Methods",
            "Access-Control-Allow-Headers"} |-> HeaderValues(out, n)]

OptionsAnswered(c) ==
    /\ Answered(c)
    /\ StatusOf(resp[c].out) = 200
    /\ Bodies(resp[c].out) = {}
    /\ \A n \in DOMAIN CorsOf(resp[c].out) :
         Cardinality(CorsOf(resp[c].out)[n]) = 1

BothOptionsWaiting ==
    /\ pc = "serving"
    /\ \A c \in Clients : req[c].command = "OPTIONS" /\ Waiting(c)

OptionsDone(c) == req[c].command = "OPTIONS" /\ OptionsAnswered(c)

BothOptionsAnswered ==
    /\ \A c \in Clients : OptionsDone(c)
    /\ \A c1, c2 \in Clients : CorsOf(resp[c1].out) = CorsOf(resp[c2].out)

HandlerRuns ==
    pc = "serving" /\ pc' = "serving" /\ backlog # <<>> /\ backlog' = Tail(backlog)

\* C10: with two OPTIONS requests waiting in either order on a serving
\* server, each of them is answered for as long as the server keeps serving;
\* every answer to OPTIONS is a 200 with no body, any two carry the same CORS
\* headers, and answering one request changes nothing but that client's
\* response.
C10_ConcurrentOptionsBothAnswered ==
    /\ \A c \in Clients :
         BothOptionsWaiting ~> (OptionsDone(c) \/ pc # "serving")
    /\ [](\A c1, c2 \in Clients :
            /\ Answered(c1) /\ req[c1].command = "OPTIONS"
            /\ Answered(c2) /\ req[c2].command = "OPTIONS"
            => /\ OptionsAnswered(c1)
               /\ CorsOf(resp[c1].out) = CorsOf(resp[c2].out))
    /\ [][ HandlerRuns =>
             /\ UNCHANGED <<docroot, server, req>>
             /\ \A c \in Clients : c # Head(backlog) => resp'[c] = resp[c] ]_vars

\* both OPTIONS requests have been answered and the server still serves
C10_Witness ==
    /\ pc = "serving"
    /\ BothOptionsAnswered
    /\ backlog = <<>>

----------------------------------------------------------------------------

Next ==
    \/ main
    \/ start_provision
    \/ start_bind
    \/ start_wrap_ssl
    \/ serve_forever
    \/ \E c \in Clients, r \in Requests : client_request(c, r)
    \/ handle_request
    \/ edit_docroot
    \/ keyboard_interrupt
    \/ serve_error
    \/ cleanup
    \/ cleanup_blocks_in_shutdown

Spec == Init /\ [][Next]_vars

\* the requests of the clients that send OPTIONS only
OptionsRequests == [command : {"OPTIONS"}, path : Paths]

OptionsNext ==
    \/ main
    \/ start_provision
    \/ start_bind
    \/ start_wrap_ssl
    \/ serve_forever
    \/ \E c \in Clients, r \in OptionsRequests : client_request(c, r)
    \/ handle_request
    \/ edit_docroot
    \/ keyboard_interrupt
    \/ serve_error
    \/ cleanup
    \/ cleanup_blocks_in_shutdown

\* clients that send OPTIONS requests only; the serving loop takes its next
\* turn whenever a connection is waiting
FairSpec == Init /\ [][OptionsNext]_vars /\ WF_vars(handle_request)
====
